---- MODULE Spec2Model ----
(***************************************************************************)
(* Model of movie.py: a Streamlit script over a SQLite file (db.db) with   *)
(* two tables, movies and reviews.  One browser session runs the script    *)
(* top to bottom (sidebar, page routing, init_db); its page queries are    *)
(* separate autocommit statements, so commits of other sessions interleave *)
(* between them.  add_review_to_db is also callable on its own.            *)
(*                                                                         *)
(* Encodings: an optional value (Python None / SQL NULL) is {} or {v};     *)
(* a text value is a sequence of one-character strings; AVG is kept as     *)
(* the exact fraction [sum, n].  Columns that no statement of the program  *)
(* branches on (director, release_year, poster_url, trailer_url,           *)
(* review_text) are left out of the rows.                                  *)
(***************************************************************************)
EXTENDS Integers, Sequences, FiniteSets, TLC

\* ---- bounds of the model ------------------------------------------------
MaxMovies == 2
MaxReviews == 2
MaxLeak == 1

\* ---- optional values ----------------------------------------------------
None == {}
Some(v) == {v}
The(o) == CHOOSE v \in o : TRUE

\* ---- text ---------------------------------------------------------------
\* byte order of the characters used (SQLite BINARY collation)
Ord(c) == CASE c = " " -> 32 [] c = "," -> 44 [] c = "A" -> 65
            [] c = "B" -> 66 [] c = "S" -> 83

RECURSIVE LexLess(_, _)
LexLess(s, t) ==
    IF t = <<>> THEN FALSE
    ELSE IF s = <<>> THEN TRUE
    ELSE IF Ord(Head(s)) # Ord(Head(t)) THEN Ord(Head(s)) < Ord(Head(t))
    ELSE LexLess(Tail(s), Tail(t))

RECURSIVE lstrip(_)
lstrip(s) == IF s # <<>> /\ Head(s) = " " THEN lstrip(Tail(s)) ELSE s

RECURSIVE rstrip(_)
rstrip(s) ==
    IF s # <<>> /\ s[Len(s)] = " " THEN rstrip(SubSeq(s, 1, Len(s) - 1)) ELSE s

\* str.strip()
strip(s) == rstrip(lstrip(s))

RECURSIVE splitFrom(_, _, _)
splitFrom(s, sep, cur) ==
    IF s = <<>> THEN <<cur>>
    ELSE IF Head(s) = sep THEN <<cur>> \o splitFrom(Tail(s), sep, <<>>)
    ELSE splitFrom(Tail(s), sep, Append(cur, Head(s)))

\* str.split(sep)
split(s, sep) == splitFrom(s, sep, <<>>)

NonEmpty(g) == g # <<>>

\* [g.strip() for g in genre.split(',') if g.strip()]
genres(genre) ==
    LET parts == split(genre, ",")
        stripped == [i \in 1..Len(parts) |-> strip(parts[i])]
    IN  SelectSeq(stripped, NonEmpty)

\* ---- sequences ordered by a key ----------------------------------------
RECURSIVE Perms(_)
Perms(S) ==
    IF S = {} THEN {<<>>}
    ELSE UNION {{<<x>> \o p : p \in Perms(S \ {x})} : x \in S}

Range(s) == {s[i] : i \in 1..Len(s)}

RECURSIVE SumRatings(_)
SumRatings(S) ==
    IF S = {} THEN 0
    ELSE LET r == CHOOSE x \in S : TRUE IN r.rating + SumRatings(S \ {r})

Min(a, b) == IF a < b THEN a ELSE b

\* ---- inputs -------------------------------------------------------------
\* the add-movie form: (title, genre)
MovieInputs ==
    { [title |-> <<>>,    genre |-> <<"S">>],
      [title |-> <<"B">>, genre |-> <<"S", ",", " ", "A">>],
      [title |-> <<"A">>, genre |-> <<"S">>] }

\* (rating, watch_date) handed to add_review_to_db: the ratings next to and
\* at the limits of the CHECK; a watch date is an ISO string, here a number
\* in the order of the strings
ReviewInputs ==
    { [rating |-> 0, watch_date |-> Some(1)],
      [rating |-> 5, watch_date |-> Some(1)],
      [rating |-> 6, watch_date |-> Some(1)] }
\* st.feedback("stars") yields an index 0..4 or None; st.date_input a date
StarIndexes == {4}
FormDates == {Some(1)}
MovieIds == 1..MaxMovies

Pages == {"home", "movie_detail", "add_movie", "stats"}

VARIABLES
    schema,             \* the tables that exist in db.db
    movies,             \* rows of movies
    reviews,            \* rows of reviews
    seq_movies,         \* AUTOINCREMENT counter of movies
    seq_reviews,        \* AUTOINCREMENT counter of reviews
    page,               \* st.session_state["page"]
    selected_movie_id,  \* st.session_state.selected_movie_id
    pc,                 \* position of the session's script run
    movie,              \* movie_detail: the row read at line 189
    reviews_raw,        \* movie_detail: the rows read at line 245
    all_movies,         \* home: the rows read at line 109
    genre_data,         \* stats: the rows read at line 354
    open,               \* connections opened and not closed
    initialized,        \* init_db has completed in this process
    early,              \* a page statement was issued before init_db completed
    last,               \* the add_review_to_db call of the latest step: arguments, return value
    snaps               \* movie_detail: the (movie row, reviews) states since line 189

vars == <<schema, movies, reviews, seq_movies, seq_reviews, page,
          selected_movie_id, pc, movie, reviews_raw, all_movies, genre_data,
          open, initialized, early, last, snaps>>

db == <<schema, movies, reviews, seq_movies, seq_reviews>>
session == <<page, selected_movie_id>>
locals == <<movie, reviews_raw, all_movies, genre_data>>

NoCall == [called |-> FALSE, rating |-> 0, ok |-> FALSE]

Init ==
    /\ schema = {}
    /\ movies = {}
    /\ reviews = {}
    /\ seq_movies = 0
    /\ seq_reviews = 0
    /\ page = "home"
    /\ selected_movie_id = None
    /\ pc = "idle"
    /\ movie = None
    /\ reviews_raw = None
    /\ all_movies = None
    /\ genre_data = None
    /\ open = 0
    /\ initialized = FALSE
    /\ early = FALSE
    /\ last = NoCall
    /\ snaps = {}

\* ---- storage: schema and constraints ------------------------------------
\* get_db_connection issues no PRAGMA foreign_keys = ON, and SQLite leaves
\* foreign-key enforcement off on a connection that does not ask for it
foreign_keys == FALSE

\* variant: the CHECK without its upper limit
CheckRatingNoUpper(rating) == rating >= 1

\* CHECK (rating >= 1 AND rating <= 5)
CheckRating(rating) == rating >= 1 /\ rating <= 5

\* FOREIGN KEY (movie_id) REFERENCES movies(id), on insert
ForeignKey(movie_id) == foreign_keys => \E m \in movies : m.id = movie_id

\* ON DELETE CASCADE: the reviews left after the movies row id is deleted
OnDeleteCascade(id) ==
    IF foreign_keys THEN {r \in reviews : r.movie_id # id} ELSE reviews

\* ---- storage: the queries -----------------------------------------------
\* SELECT * FROM movies WHERE id = ?   (fetchone)
SelectMovie(id, ms) ==
    IF \E m \in ms : m.id = id THEN Some(CHOOSE m \in ms : m.id = id) ELSE None

\* NULL sorts below every value
DateLess(a, b) ==
    \/ a = None /\ b # None
    \/ a # None /\ b # None /\ The(a) < The(b)

\* r comes before s under ORDER BY watch_date DESC, id DESC
ReviewBefore(r, s) ==
    \/ DateLess(s.watch_date, r.watch_date)
    \/ r.watch_date = s.watch_date /\ r.id > s.id

\* SELECT * FROM reviews WHERE movie_id = ? ORDER BY watch_date DESC, id DESC
SelectReviews(id, rs) ==
    LET S == {r \in rs : r.movie_id = id}
    IN  CHOOSE p \in Perms(S) :
            \A i, j \in 1..Len(p) : i < j => ReviewBefore(p[i], p[j])

\* movies m JOIN reviews r ON m.id = r.movie_id
InnerJoin(ms, rs) ==
    {x \in {[m |-> m, r |-> Some(r)] : m \in ms, r \in rs} :
        x.m.id = The(x.r).movie_id}

\* variant: JOIN in place of LEFT JOIN
LeftJoinAsInner(ms, rs) == InnerJoin(ms, rs)

\* movies m LEFT JOIN reviews r ON m.id = r.movie_id: a movies row without a
\* match is kept, joined to an all-NULL reviews row
LeftJoin(ms, rs) ==
    InnerJoin(ms, rs) \cup
        {[m |-> m, r |-> None] : m \in {n \in ms : \A r \in rs : r.movie_id # n.id}}

\* AVG over the non-NULL ratings of a group: NULL for none
Avg(S) == IF S = {} THEN None ELSE Some([sum |-> SumRatings(S), n |-> Cardinality(S)])

\* the grouped rows of the home query: one per movies row of the join
HomeGroups(ms, rs) ==
    LET J == LeftJoin(ms, rs)
        G(m) == {The(x.r) : x \in {y \in J : y.m = m /\ y.r # None}}
    IN  {[id |-> m.id, title |-> m.title, avg_rating |-> Avg(G(m)),
          review_count |-> Cardinality(G(m))] : m \in {x.m : x \in J}}

\* the home query, lines 109-127: ORDER BY m.title ASC leaves the order of
\* equal titles to the engine
HomeQuery(ms, rs) ==
    {p \in Perms(HomeGroups(ms, rs)) :
        \A i, j \in 1..Len(p) : i < j => ~LexLess(p[j].title, p[i].title)}

Limit == 5

\* the genre query, lines 354-360: GROUP BY m.genre over the inner join,
\* ORDER BY review_count DESC LIMIT 5; ties are left to the engine
GenreGroups(ms, rs) ==
    LET J == {x \in InnerJoin(ms, rs) : x.m.genre # <<>>}
    IN  {[genre |-> g,
          review_count |-> Cardinality({The(x.r) : x \in {y \in J : y.m.genre = g}})]
            : g \in {x.m.genre : x \in J}}

GenreQuery(ms, rs) ==
    {SubSeq(p, 1, Min(Limit, Len(p))) : p \in
        {q \in Perms(GenreGroups(ms, rs)) :
            \A i, j \in 1..Len(q) : i < j => q[i].review_count >= q[j].review_count}}

\* ---- the state of the movie an open detail page is about ----------------
Snapshot(ms, rs) ==
    [movie |-> SelectMovie(The(selected_movie_id), ms),
     reviews |-> {r \in rs : r.movie_id = The(selected_movie_id)}]

\* a commit of another session while the detail page is between its reads
Observe(ms, rs) ==
    snaps' = IF pc = "detail_reviews" THEN snaps \cup {Snapshot(ms, rs)} ELSE snaps

\* a page statement issued by this process
Issue == early' = (early \/ ~initialized)


\* ---- add_review_to_db ---------------------------------------------------
\* the INSERT at line 58 raises no sqlite3.Error; fault: the engine fails for
\* a reason other than a constraint (disk, lock)
InsertReviewOk(movie_id, rating, fault) ==
    /\ ~fault
    /\ "reviews" \in schema
    /\ CheckRating(rating)
    /\ ForeignKey(movie_id)

\* variant: the INSERT is never committed, and True is returned all the same
add_review_to_db_uncommitted(movie_id, rating, watch_date, fault) ==
    /\ InsertReviewOk(movie_id, rating, fault) => seq_reviews < MaxReviews
    /\ last' = [called |-> TRUE, rating |-> rating,
                ok |-> InsertReviewOk(movie_id, rating, fault)]
    /\ UNCHANGED <<schema, movies, seq_movies, reviews, seq_reviews>>

\* lines 53-71: INSERT and commit, or rollback; the connection it opens is
\* closed in the finally clause on both paths
add_review_to_db(movie_id, rating, watch_date, fault) ==
    /\ InsertReviewOk(movie_id, rating, fault) => seq_reviews < MaxReviews
    /\ IF InsertReviewOk(movie_id, rating, fault)
       THEN /\ reviews' = reviews \cup
                    {[id |-> seq_reviews + 1, movie_id |-> movie_id,
                      rating |-> rating, watch_date |-> watch_date]}
            /\ seq_reviews' = seq_reviews + 1
       ELSE UNCHANGED <<reviews, seq_reviews>>
    /\ last' = [called |-> TRUE, rating |-> rating,
                ok |-> InsertReviewOk(movie_id, rating, fault)]
    /\ UNCHANGED <<schema, movies, seq_movies>>

\* add_review_to_db run by another session, or on its own
call_add_review(movie_id, rating, watch_date, fault) ==
    /\ add_review_to_db(movie_id, rating, watch_date, fault)
    /\ Observe(movies', reviews')
    /\ UNCHANGED <<session, pc, locals, open, initialized, early>>

\* ---- the script run of the session --------------------------------------
\* a run starts: first load, or a widget event without a sidebar button
run ==
    /\ pc = "idle"
    /\ pc' = "route"
    /\ UNCHANGED <<db, session, locals, open, initialized, early, snaps>>
    /\ last' = NoCall

\* variant: a sidebar button that leaves the selected movie in place
sidebar_keeps_selection(p) ==
    /\ pc = "idle"
    /\ page' = p
    /\ pc' = "route"
    /\ UNCHANGED <<db, selected_movie_id, locals, open, initialized, early, snaps>>
    /\ last' = NoCall

\* lines 84-95: a sidebar button; st.rerun() starts the run over
sidebar(p) ==
    /\ pc = "idle"
    /\ page' = p
    /\ selected_movie_id' = None
    /\ pc' = "route"
    /\ UNCHANGED <<db, locals, open, initialized, early, snaps>>
    /\ last' = NoCall

\* lines 101-181: the home page; click: the id whose detail button was
\* pressed, 0 for none
home(fault, click) ==
    /\ pc = "route"
    /\ page = "home"
    /\ Issue
    /\ IF fault \/ schema # {"movies", "reviews"}
       THEN /\ all_movies' = None
            /\ pc' = "init_db"
            /\ UNCHANGED session
       ELSE \E rows \in HomeQuery(movies, reviews) :
            /\ all_movies' = Some(rows)
            /\ IF \E i \in 1..Len(rows) : rows[i].id = click
               THEN /\ selected_movie_id' = Some(click)
                    /\ page' = "movie_detail"
                    /\ pc' = "route"
               ELSE /\ pc' = "init_db"
                    /\ UNCHANGED session
    /\ UNCHANGED <<db, movie, reviews_raw, genre_data, open, initialized, snaps>>
    /\ last' = NoCall

\* lines 183-191: the detail page opens its connection and reads the movie
movie_detail(fault) ==
    /\ pc = "route"
    /\ page = "movie_detail"
    /\ selected_movie_id # None
    /\ Issue
    /\ LET m == SelectMovie(The(selected_movie_id), movies)
       IN  IF fault \/ "movies" \notin schema \/ m = None
           THEN /\ movie' = None
                /\ pc' = "init_db"
                /\ UNCHANGED <<open, snaps>>
           ELSE /\ movie' = m
                /\ pc' = "detail_reviews"
                /\ open' = open + 1
                /\ snaps' = {Snapshot(movies, reviews)}
    /\ all_movies' = None
    /\ UNCHANGED <<db, session, reviews_raw, genre_data, initialized>>
    /\ last' = NoCall

\* lines 245-250: the detail page reads the reviews, on the same connection
\* and outside any transaction
movie_detail_reviews(fault) ==
    /\ pc = "detail_reviews"
    /\ Issue
    /\ IF fault \/ "reviews" \notin schema
       THEN /\ reviews_raw' = None
            /\ movie' = None
            /\ snaps' = {}
            /\ pc' = "init_db"
            /\ open' = open - 1
       ELSE /\ reviews_raw' = Some(SelectReviews(The(selected_movie_id), reviews))
            /\ pc' = "detail_form"
            /\ UNCHANGED <<movie, snaps, open>>
    /\ UNCHANGED <<db, session, all_movies, genre_data, initialized>>
    /\ last' = NoCall

\* lines 270-293: the review form, then the finally clause; star: the
\* st.feedback value, None when no star is selected
movie_review_form(submit_button, star, watch_date, fault) ==
    /\ pc = "detail_form"
    /\ IF submit_button /\ star # None
       THEN /\ add_review_to_db(The(selected_movie_id), The(star) + 1, watch_date, fault)
            /\ Issue
            /\ pc' = IF InsertReviewOk(The(selected_movie_id), The(star) + 1, fault)
                     THEN "route" ELSE "init_db"
       ELSE /\ pc' = "init_db"
            /\ last' = NoCall
            /\ UNCHANGED <<db, early>>
    /\ open' = open - 1
    /\ movie' = None
    /\ reviews_raw' = None
    /\ snaps' = {}
    /\ UNCHANGED <<session, all_movies, genre_data, initialized>>

\* lines 295-328: the add-movie form
add_movie(submitted, inp, fault) ==
    /\ pc = "route"
    /\ page = "add_movie"
    /\ IF submitted /\ inp.title # <<>>
       THEN /\ Issue
            /\ IF ~fault /\ "movies" \in schema
               THEN /\ seq_movies < MaxMovies
                    /\ movies' = movies \cup
                          {[id |-> seq_movies + 1, title |-> inp.title, genre |-> inp.genre]}
                    /\ seq_movies' = seq_movies + 1
                    /\ page' = "home"
                    /\ pc' = "route"
               ELSE /\ pc' = "init_db"
                    /\ UNCHANGED <<movies, seq_movies, page>>
       ELSE /\ pc' = "init_db"
            /\ UNCHANGED <<movies, seq_movies, page, early>>
    /\ last' = NoCall
    /\ UNCHANGED <<schema, reviews, seq_reviews, selected_movie_id, locals, open,
                   initialized, snaps>>

\* lines 330-399: the statistics page (the genre query; the rating and the
\* watch-year queries read the same tables and write nothing)
stats(fault) ==
    /\ pc = "route"
    /\ page = "stats"
    /\ Issue
    /\ IF fault \/ schema # {"movies", "reviews"}
       THEN genre_data' = None
       ELSE \E rows \in GenreQuery(movies, reviews) : genre_data' = Some(rows)
    /\ pc' = "init_db"
    /\ last' = NoCall
    /\ UNCHANGED <<db, session, movie, reviews_raw, all_movies, open, initialized, snaps>>

\* the tables init_db has created when it returns or raises; fault: the
\* statement that raises ("none" for a clean run).  The CREATE statements
\* commit on their own.
Created(fault) ==
    CASE fault = "movies" -> {}
      [] fault = "reviews" -> {"movies"}
      [] OTHER -> {"movies", "reviews"}

\* lines 17-50 as called at line 402, the last statement of a run that no
\* st.rerun() cut short; without try/finally, a raise skips conn.close()
init_db(fault) ==
    /\ pc = "init_db"
    /\ schema' = schema \cup Created(fault)
    /\ IF fault = "none"
       THEN /\ initialized' = TRUE
            /\ UNCHANGED open
       ELSE /\ open < MaxLeak
            /\ open' = open + 1
            /\ UNCHANGED initialized
    /\ pc' = "idle"
    /\ movie' = None
    /\ reviews_raw' = None
    /\ all_movies' = None
    /\ genre_data' = None
    /\ last' = NoCall
    /\ UNCHANGED <<movies, reviews, seq_movies, seq_reviews, session, early, snaps>>

\* DELETE FROM movies WHERE id = ? on a connection of get_db_connection
delete_movie(id) ==
    /\ "movies" \in schema
    /\ \E m \in movies : m.id = id
    /\ movies' = {m \in movies : m.id # id}
    /\ reviews' = OnDeleteCascade(id)
    /\ Observe(movies', reviews')
    /\ last' = NoCall
    /\ UNCHANGED <<schema, seq_movies, seq_reviews, session, pc, locals, open,
                   initialized, early>>

Stars == {None} \cup {Some(i) : i \in StarIndexes}
InitFaults == {"none", "movies", "reviews"}

Next ==
    \/ run
    \/ \E p \in {"home", "add_movie", "stats"} : sidebar(p)
    \/ \E fault \in BOOLEAN, click \in 0..MaxMovies : home(fault, click)
    \/ \E fault \in BOOLEAN : movie_detail(fault)
    \/ \E fault \in BOOLEAN : movie_detail_reviews(fault)
    \/ \E b \in BOOLEAN, star \in Stars, d \in FormDates, fault \in BOOLEAN :
            movie_review_form(b, star, d, fault)
    \/ \E b \in BOOLEAN, inp \in MovieInputs, fault \in BOOLEAN : add_movie(b, inp, fault)
    \/ \E fault \in BOOLEAN : stats(fault)
    \/ \E fault \in InitFaults : init_db(fault)
    \/ \E id \in MovieIds, inp \in ReviewInputs, fault \in BOOLEAN :
            call_add_review(id, inp.rating, inp.watch_date, fault)

Spec == Init /\ [][Next]_vars

NextDel ==
    \/ Next
    \/ \E id \in MovieIds : delete_movie(id)

SpecDel == Init /\ [][NextDel]_vars


\* ---- properties ---------------------------------------------------------

\* C1: a call of add_review_to_db with a rating outside 1..5 returns False
\* and leaves the stored reviews exactly as they were.
RatingOutsideRangeRejected ==
    [][(last'.called /\ last'.rating \notin 1..5)
          => (~last'.ok /\ reviews' = reviews /\ seq_reviews' = seq_reviews)]_vars

\* C1 witness: with the tables and a stored review in place, a call with a
\* rating outside 1..5 has just returned False
RatingOutsideRangeTried ==
    /\ last.called
    /\ last.rating \notin 1..5
    /\ ~last.ok
    /\ "reviews" \in schema
    /\ reviews # {}

\* C2: every stored review's movie_id is the id of a stored movie.
ReviewsReferenceMovies ==
    \A r \in reviews : \E m \in movies : m.id = r.movie_id

\* the reviews a step has added
Added == reviews' \ reviews

\* C3: when add_review_to_db returns True for a stored movie, exactly one row
\* is new, the review list of its movie holds it exactly once, and that list
\* is one longer than before the call.
AddReviewVisibleOnce ==
    [][(last'.called /\ last'.ok)
          => /\ Cardinality(Added) = 1
             /\ \A r \in Added :
                  (\E m \in movies : m.id = r.movie_id) =>
                    LET before == SelectReviews(r.movie_id, reviews)
                        after == SelectReviews(r.movie_id, reviews')
                    IN  /\ Cardinality({i \in 1..Len(after) : after[i] = r}) = 1
                        /\ Cardinality({i \in 1..Len(after) : after[i].id = r.id}) = 1
                        /\ Len(after) = Len(before) + 1
                        /\ r.rating = last'.rating]_vars

\* C3 witness: a valid review was just added to a stored movie that already
\* had one
SecondReviewAdded ==
    /\ last.called
    /\ last.ok
    /\ \E r \in reviews :
          /\ r.id = seq_reviews
          /\ \E m \in movies : m.id = r.movie_id
          /\ Len(SelectReviews(r.movie_id, reviews)) = 2

InitDbBeforeStatements == early = FALSE

\* C6: the home query returns every stored movie exactly once and nothing
\* else, a movie without reviews with avg_rating NULL and review_count 0.
HomeListsEveryMovieOnce ==
    [][(pc = "route" /\ page = "home" /\ all_movies = None /\ all_movies' # None)
          => LET rows == The(all_movies')
             IN  /\ Len(rows) = Cardinality(movies)
                 /\ \A m \in movies :
                      /\ Cardinality({i \in 1..Len(rows) : rows[i].id = m.id}) = 1
                      /\ (\A r \in reviews : r.movie_id # m.id) =>
                            \A i \in 1..Len(rows) :
                                rows[i].id = m.id =>
                                    /\ rows[i].avg_rating = None
                                    /\ rows[i].review_count = 0]_vars

\* C6 witness: the home page has listed a movie without reviews next to a
\* movie with reviews
HomeListedUnreviewedMovie ==
    /\ all_movies # None
    /\ Len(The(all_movies)) = 2
    /\ \E i, j \in 1..Len(The(all_movies)) :
          /\ The(all_movies)[i].avg_rating = None
          /\ The(all_movies)[i].review_count = 0
          /\ The(all_movies)[j].review_count > 0
          /\ The(all_movies)[j].avg_rating # None

\* the stored reviews of the movies that carry the label
ReviewsOfLabel(label) ==
    {r \in reviews : \E m \in movies :
        m.id = r.movie_id /\ label \in Range(genres(m.genre))}

\* C7: the genre statistic has, for every label of a reviewed movie, one
\* entry under the trimmed label, counting the reviews of all movies that
\* carry the label.
GenreCountsPerLabel ==
    [][(pc = "route" /\ page = "stats" /\ genre_data = None /\ genre_data' # None)
          => LET rows == The(genre_data')
             IN  \A m \in movies : \A label \in Range(genres(m.genre)) :
                    ReviewsOfLabel(label) # {} =>
                        \E i \in 1..Len(rows) :
                            /\ rows[i].genre = label
                            /\ rows[i].review_count = Cardinality(ReviewsOfLabel(label))]_vars

ConnectionsClosedOnReturn == pc = "idle" => open = 0

\* C10: the page is movie_detail exactly when a movie is selected.
DetailIffSelected == (page = "movie_detail") <=> (selected_movie_id # None)

\* C10 witness: the detail page of the second movie is on display
DetailOfSecondMovieShown ==
    /\ page = "movie_detail"
    /\ pc = "detail_form"
    /\ selected_movie_id = Some(2)

====
